---------------------------- MODULE Spec2Model ----------------------------
(***************************************************************************)
(* Upstream PROXY protocol transport socket                                *)
(* (source/extensions/transport_sockets/proxy_protocol/proxy_protocol.cc). *)
(*                                                                         *)
(* UpstreamProxyProtocolSocket decorates a wrapped transport socket: on    *)
(* onConnected it generates a PROXY protocol header into header_buffer_,   *)
(* and doWrite drains that buffer to the I/O handle before it forwards     *)
(* application data to the wrapped transport socket.                       *)
(*                                                                         *)
(* Bytes are modelled as integers.  The codec, the I/O handle and the      *)
(* wrapped transport socket are collaborators whose code is not in this    *)
(* file; they are modelled by their interface.                             *)
(***************************************************************************)
EXTENDS Integers, Sequences, FiniteSets, TLC

(***************************************************************************)
(* Bounds of the model.                                                    *)
(***************************************************************************)
\* longest list of configured (static) TLV entries
MaxStatic == 1
\* longest list of TLV entries in the host metadata
MaxMeta == 2
\* longest canonical string of the per-call options in a hashKey call
MaxString == 2
\* number of application bytes the connection hands to doWrite in total
MaxApp == 2

(***************************************************************************)
(* Input domains.                                                          *)
(***************************************************************************)
\* TLV type codes used by the configuration and the host metadata
TlvTypes == {1, 2}
\* TLV values: the empty value and two different one-byte values
TlvValues == {<<>>, <<7>>, <<8>>}
\* the TLV carried by the per-call options, when there is one
CallTlv == [type |-> 3, value |-> <<9>>]
\* addresses: the connection's own, and the per-call override pair
Address == [local |-> 10, remote |-> 20, option_src |-> 30, option_dst |-> 40]
\* the i-th application byte the connection is handed: 201, 202, ...
AppByte(i) == 200 + i

SeqsUpTo(S, n) == UNION {[1..k -> S] : k \in 0..n}

TlvEntries == [type : TlvTypes, value : TlvValues]

\* the configurations of the pass-through policy: not set, INCLUDE_ALL, and
\* INCLUDE with a list of type codes (259 is 3 once masked with 0xFF)
PassThroughConfigs ==
    {[has_pass_through_tlvs |-> FALSE, match_type |-> "INCLUDE_ALL", tlv_type |-> <<>>],
     [has_pass_through_tlvs |-> TRUE, match_type |-> "INCLUDE_ALL", tlv_type |-> <<>>],
     [has_pass_through_tlvs |-> TRUE, match_type |-> "INCLUDE", tlv_type |-> <<>>],
     [has_pass_through_tlvs |-> TRUE, match_type |-> "INCLUDE", tlv_type |-> <<259>>]}

\* the transport socket options of the call: a null pointer, options without
\* PROXY protocol options, and options with them (with or without a TLV)
NoOptions == [present |-> FALSE, has_proxy_protocol |-> FALSE,
              src_addr_ |-> 0, dst_addr_ |-> 0, tlv_vector_ |-> <<>>]
OptionsWithoutProxyProtocol == [NoOptions EXCEPT !.present = TRUE]
OptionsWith(tlvs) == [present |-> TRUE, has_proxy_protocol |-> TRUE,
                      src_addr_ |-> Address.option_src, dst_addr_ |-> Address.option_dst,
                      tlv_vector_ |-> tlvs]
OptionsDomain == {NoOptions, OptionsWithoutProxyProtocol,
                  OptionsWith(<<>>), OptionsWith(<<CallTlv>>)}

\* what processCustomTLVsFromHost finds on the connection: one of the five
\* early returns, or typed filter metadata that unpacks to a list of entries
HostKinds == {"no_upstream_info", "no_host", "no_metadata", "no_filter",
              "unpack_failed", "ok"}
HostDomain ==
    {[kind |-> k, entries |-> <<>>] : k \in HostKinds \ {"ok"}}
    \cup {[kind |-> "ok", entries |-> e] : e \in SeqsUpTo(TlvEntries, MaxMeta)}

Range(s) == {s[i] : i \in DOMAIN s}

(***************************************************************************)
(* The codec (source/extensions/common/proxy_protocol): interface only.    *)
(* A header is a sequence of bytes; a TLV takes one byte for its type and  *)
(* the bytes of its value.                                                 *)
(***************************************************************************)
\* the number of TLV bytes a v2 header can carry
V2MaxExtension == 4

RECURSIVE TlvBytes(_)
TlvBytes(tlvs) ==
    IF tlvs = <<>> THEN <<>>
    ELSE <<Head(tlvs).type>> \o Head(tlvs).value \o TlvBytes(Tail(tlvs))

generateV1Header(src, dst) == <<1, src, dst>>

generateV2LocalHeader == <<2, 0>>

\* the TLVs of the options that the pass-through policy lets through, after
\* the custom TLVs; [ok |-> FALSE] and a header without TLVs on overflow
generateV2Header(options, pass_all_tlvs, pass_through_tlvs, custom_tlvs) ==
    LET passed == SelectSeq(options.tlv_vector_,
                            LAMBDA t : pass_all_tlvs \/ t.type \in pass_through_tlvs)
        ext == TlvBytes(custom_tlvs \o passed)
        fixed == <<2, 1, options.src_addr_, options.dst_addr_>>
    IN  IF Len(ext) > V2MaxExtension
        THEN [ok |-> FALSE, bytes |-> fixed]
        ELSE [ok |-> TRUE, bytes |-> fixed \o ext]

(***************************************************************************)
(* The constructor.                                                        *)
(***************************************************************************)
PassAllTlvs(config) ==
    IF config.pass_through.has_pass_through_tlvs
    THEN config.pass_through.match_type = "INCLUDE_ALL"
    ELSE FALSE

\* mutant of PassThroughTlvs: the type codes are not cut to a byte
PassThroughTlvs_Unmasked(config) ==
    IF config.pass_through.has_pass_through_tlvs
       /\ config.pass_through.match_type = "INCLUDE"
    THEN Range(config.pass_through.tlv_type)
    ELSE {}

\* lines 37-42
PassThroughTlvs(config) ==
    IF config.pass_through.has_pass_through_tlvs
       /\ config.pass_through.match_type = "INCLUDE"
    THEN {t % 256 : t \in Range(config.pass_through.tlv_type)}
    ELSE {}

RECURSIVE ConfigTlvs(_)
ConfigTlvs(entries) ==
    IF entries = <<>> THEN <<>>
    ELSE IF Head(entries).value = <<>> THEN ConfigTlvs(Tail(entries))
    ELSE <<[type |-> Head(entries).type % 256, value |-> Head(entries).value]>>
         \o ConfigTlvs(Tail(entries))

(***************************************************************************)
(* State.                                                                  *)
(***************************************************************************)
VARIABLES
    \* what the socket is constructed from and runs against
    config,              \* ProxyProtocolConfig: version, pass_through, entries
    host,                \* the upstream host's metadata, read at generation
    \* the fields of UpstreamProxyProtocolSocket
    options_,
    version_,
    pass_all_tlvs_,
    pass_through_tlvs_,
    config_tlvs_,
    custom_tlvs_,
    header_buffer_,
    v2_tlvs_exceed_max_length_,   \* stats_: the overflow counter
    \* the call of doWrite in progress
    pc,                  \* "idle", or "writeHeader" inside the loop of writeHeader
    action,              \* writeHeader's local
    bytes_written,       \* writeHeader's local
    \* the connection around the socket
    write_buffer,        \* the application data the connection passes to doWrite
    wire,                \* every byte written to the I/O handle, in order
    \* history
    connected,           \* the connected event has been delivered
    generated,           \* the header bytes each generateHeader call produced
    codec_tlvs,          \* each generateV2Header call: its TLV list and its answer
    inner_connected,     \* header_buffer_ as each inner onConnected found it
    app_total,           \* application bytes handed to the connection so far
    pre_wire,            \* the wire as the connected event found it
    call,                \* the doWrite call in progress or last returned
    ret,                 \* the result the last doWrite call returned
    \* the factory
    hash_calls,          \* the hashKey calls made: key, options and resulting key
    sockets,             \* the sockets createTransportSocket has made, each with its fields
    created,             \* the createTransportSocket calls: the wrapped factory's answer and the result
    acted                \* the socket the last event was delivered to, 0 for none

vars == <<config, host, options_, version_, pass_all_tlvs_, pass_through_tlvs_,
          config_tlvs_, custom_tlvs_, header_buffer_, v2_tlvs_exceed_max_length_,
          pc, action, bytes_written, write_buffer, wire, connected, generated,
          codec_tlvs, inner_connected, app_total, pre_wire, call, ret, hash_calls,
          sockets, created, acted>>

socket_fields == <<options_, version_, pass_all_tlvs_, pass_through_tlvs_, config_tlvs_>>
inputs == <<config, host, hash_calls>>
factory_sockets == <<sockets, created, acted>>

NoCall == [header_length |-> 0, buffer |-> <<>>, end_stream |-> FALSE,
           inner_calls |-> <<>>, header_after |-> 0, header_action |-> "KeepOpen",
           buffer_after |-> <<>>,
           \* the writes of writeHeader to the I/O handle: their number's parity,
           \* whether one succeeded with no byte, the error that one ended with,
           \* the header bytes left then, and whether a write followed the error
           io_parity |-> 0, zero_write |-> FALSE, io_error |-> "none",
           header_at_error |-> 0, io_after_error |-> FALSE]
\* the result of the wrapped transport socket's doWrite
InnerResult(inner_action, k) ==
    [action_ |-> inner_action, bytes_processed_ |-> k, end_stream_read_ |-> FALSE]
NoResult == [action_ |-> "KeepOpen", bytes_processed_ |-> 0, end_stream_read_ |-> FALSE]

ConfigDomain == [version : {"V1", "V2"}, pass_through : PassThroughConfigs,
                 entries : SeqsUpTo(TlvEntries, MaxStatic)]

\* the socket as its constructor leaves it, for one configuration, options and host
Constructed(c, o, h) ==
    /\ config = c
    /\ host = h
    /\ options_ = o
    /\ version_ = c.version
    /\ pass_all_tlvs_ = PassAllTlvs(c)
    /\ pass_through_tlvs_ = PassThroughTlvs(c)
    /\ config_tlvs_ = ConfigTlvs(c.entries)
    /\ custom_tlvs_ = <<>>
    /\ header_buffer_ = <<>>
    /\ v2_tlvs_exceed_max_length_ = 0
    /\ pc = "idle"
    /\ action = "KeepOpen"
    /\ bytes_written = 0
    /\ write_buffer = <<>>
    /\ wire = <<>>
    /\ connected = FALSE
    /\ generated = <<>>
    /\ codec_tlvs = <<>>
    /\ inner_connected = <<>>
    /\ app_total = 0
    /\ pre_wire = <<>>
    /\ call = NoCall
    /\ ret = NoResult
    /\ hash_calls = <<>>
    /\ sockets = <<>>
    /\ created = <<>>
    /\ acted = 0

\* every configuration, options and host of the input domains: the start of
\* the specification of header generation
InitGen == \E c \in ConfigDomain, o \in OptionsDomain, h \in HostDomain : Constructed(c, o, h)

\* the connections that are followed through their writes: either version,
\* with and without per-call options, TLVs from no source or from every one
\* (one configured, one from the host, one from the call: more than fit)
WriteConfigs == {c \in ConfigDomain :
                    /\ c.pass_through.has_pass_through_tlvs
                    /\ c.pass_through.match_type = "INCLUDE_ALL"
                    /\ c.entries \in {<<>>, <<[type |-> 1, value |-> <<7>>]>>}}
WriteOptions == {NoOptions, OptionsWith(<<CallTlv>>)}
WriteHosts == {h \in HostDomain :
                    \/ h.kind = "no_metadata"
                    \/ h.kind = "ok" /\ h.entries = <<[type |-> 2, value |-> <<8>>]>>}

Init == \E c \in WriteConfigs, o \in WriteOptions, h \in WriteHosts : Constructed(c, o, h)

(***************************************************************************)
(* Header generation.                                                      *)
(***************************************************************************)
\* mutant of HostTlvs: empty values are not skipped
HostTlvs_KeepEmpty(entries) ==
    [i \in DOMAIN entries |-> [type |-> entries[i].type % 256, value |-> entries[i].value]]

\* lines 223-232: the entries of the host metadata, without those of empty value
RECURSIVE HostTlvs(_)
HostTlvs(entries) ==
    IF entries = <<>> THEN <<>>
    ELSE IF Head(entries).value = <<>> THEN HostTlvs(Tail(entries))
    ELSE <<[type |-> Head(entries).type % 256, value |-> Head(entries).value]>>
         \o HostTlvs(Tail(entries))

\* the returned set of type codes, and custom_tlvs_ after the call
processCustomTLVsFromHost(custom, h) ==
    IF h.kind # "ok"
    THEN [host_metadata_tlv_types |-> {}, custom_tlvs |-> custom]
    ELSE [host_metadata_tlv_types |-> {}, custom_tlvs |-> custom \o HostTlvs(h.entries)]

\* mutant of Backfill: the test of line 113 the other way round
Backfill_Inverted(custom, types, cfg_tlvs) ==
    custom \o SelectSeq(cfg_tlvs, LAMBDA tlv : tlv.type \in types)

\* custom_tlvs_ after the backfill of the configured TLVs
Backfill(custom, types, cfg_tlvs) ==
    custom \o SelectSeq(cfg_tlvs, LAMBDA tlv : tlv.type \notin types)

\* mutant of HasProxyProtocolOptions: only the options pointer is tested
HasProxyProtocolOptions_PointerOnly(o) == o.present

\* lines 87 and 104: options_ && options_->proxyProtocolOptions().has_value()
HasProxyProtocolOptions(o) == o.present /\ o.has_proxy_protocol

\* mutant of generateHeaderV2: the counter is incremented when the codec succeeds
generateHeaderV2_CountsSuccess(o, custom, cfg_tlvs, pass_all, pass_through, h) ==
    IF ~(o.present /\ o.has_proxy_protocol)
    THEN [bytes |-> generateV2LocalHeader, custom_tlvs |-> custom, inc |-> 0,
          codec |-> <<>>]
    ELSE LET r == processCustomTLVsFromHost(custom, h)
             tlvs == Backfill(r.custom_tlvs, r.host_metadata_tlv_types, cfg_tlvs)
             enc == generateV2Header(o, pass_all, pass_through, tlvs)
         IN  [bytes |-> enc.bytes, custom_tlvs |-> tlvs,
              inc |-> IF enc.ok THEN 1 ELSE 0,
              codec |-> <<[tlvs |-> tlvs, ok |-> enc.ok, options |-> o,
                          pass_all_tlvs |-> pass_all, pass_through_tlvs |-> pass_through]>>]

\* what generateHeaderV2 does: the bytes added to header_buffer_, custom_tlvs_
\* afterwards, the overflow counter's increment, and the codec's TLV argument
generateHeaderV2(o, custom, cfg_tlvs, pass_all, pass_through, h) ==
    IF ~HasProxyProtocolOptions(o)
    THEN [bytes |-> generateV2LocalHeader, custom_tlvs |-> custom, inc |-> 0,
          codec |-> <<>>]
    ELSE LET r == processCustomTLVsFromHost(custom, h)
             tlvs == Backfill(r.custom_tlvs, r.host_metadata_tlv_types, cfg_tlvs)
             enc == generateV2Header(o, pass_all, pass_through, tlvs)
         IN  [bytes |-> enc.bytes, custom_tlvs |-> tlvs,
              inc |-> IF enc.ok THEN 0 ELSE 1, codec |-> <<[tlvs |-> tlvs, ok |-> enc.ok, options |-> o,
                          pass_all_tlvs |-> pass_all, pass_through_tlvs |-> pass_through]>>]

\* mutant of generateHeaderV1: the addresses of the connection, options or not
generateHeaderV1_ConnectionOnly(o, custom) ==
    [bytes |-> generateV1Header(Address.local, Address.remote), custom_tlvs |-> custom,
     inc |-> 0, codec |-> <<>>]

\* lines 81-94
generateHeaderV1(o, custom) ==
    LET src_addr == IF HasProxyProtocolOptions(o) THEN o.src_addr_ ELSE Address.local
        dst_addr == IF HasProxyProtocolOptions(o) THEN o.dst_addr_ ELSE Address.remote
    IN  [bytes |-> generateV1Header(src_addr, dst_addr), custom_tlvs |-> custom,
         inc |-> 0, codec |-> <<>>]

generateHeader(v, o, custom, cfg_tlvs, pass_all, pass_through, h) ==
    IF v = "V1" THEN generateHeaderV1(o, custom)
    ELSE generateHeaderV2(o, custom, cfg_tlvs, pass_all, pass_through, h)

\* mutant of OnConnectedSteps: the header is generated a second time
OnConnectedSteps_GeneratesTwice ==
    <<"generateHeader", "generateHeader", "inner_onConnected">>

\* mutant of OnConnectedSteps: the event is passed on before the header is generated
OnConnectedSteps_InnerFirst == <<"inner_onConnected", "generateHeader">>

\* onConnected: generateHeader(), then the wrapped socket's onConnected()
OnConnectedSteps == <<"generateHeader", "inner_onConnected">>

RECURSIVE RunOnConnected(_, _)
\* st: [header, custom, inc, generated, codec, inner]
RunOnConnected(steps, st) ==
    IF steps = <<>> THEN st
    ELSE IF Head(steps) = "generateHeader"
    THEN LET g == generateHeader(version_, options_, st.custom, config_tlvs_,
                                 pass_all_tlvs_, pass_through_tlvs_, host)
         IN  RunOnConnected(Tail(steps),
                 [st EXCEPT !.header = @ \o g.bytes,
                            !.custom = g.custom_tlvs,
                            !.inc = @ + g.inc,
                            !.generated = Append(@, g.bytes),
                            !.codec = @ \o g.codec])
    ELSE RunOnConnected(Tail(steps), [st EXCEPT !.inner = Append(@, st.header)])

\* lines 157-160.  The connection delivers the connected event once, between
\* calls of doWrite; onConnected itself tests nothing.
OnConnected ==
    /\ pc = "idle"
    /\ ~connected
    /\ LET st == RunOnConnected(OnConnectedSteps,
                     [header |-> header_buffer_, custom |-> custom_tlvs_, inc |-> 0,
                      generated |-> generated, codec |-> codec_tlvs,
                      inner |-> inner_connected])
       IN  /\ header_buffer_' = st.header
           /\ custom_tlvs_' = st.custom
           /\ v2_tlvs_exceed_max_length_' = v2_tlvs_exceed_max_length_ + st.inc
           /\ generated' = st.generated
           /\ codec_tlvs' = st.codec
           /\ inner_connected' = st.inner
    /\ connected' = TRUE
    /\ pre_wire' = wire
    /\ UNCHANGED <<inputs, factory_sockets, socket_fields, pc, action, bytes_written, write_buffer,
                   wire, app_total, call, ret>>

(***************************************************************************)
(* The connection: application data arrives in its write buffer, which it  *)
(* passes to every doWrite call.                                           *)
(***************************************************************************)
AppWrite ==
    /\ pc = "idle"
    /\ app_total < MaxApp
    /\ write_buffer' = Append(write_buffer, AppByte(app_total + 1))
    /\ app_total' = app_total + 1
    /\ UNCHANGED <<inputs, factory_sockets, socket_fields, custom_tlvs_, header_buffer_,
                   v2_tlvs_exceed_max_length_, pc, action, bytes_written, wire,
                   connected, generated, codec_tlvs, inner_connected, pre_wire,
                   call, ret>>

(***************************************************************************)
(* doWrite and writeHeader.                                                *)
(***************************************************************************)
Take(s, n) == SubSeq(s, 1, n)
Drop(s, n) == SubSeq(s, n + 1, Len(s))

\* mutant of HeaderPending: the last header byte is not waited for
HeaderPending_AllButOne(header) == Len(header) > 1

\* line 61: the header is drained first
HeaderPending(header) == Len(header) > 0

\* mutant of ForwardAfterHeader: the length of header_buffer_ is not looked at
ForwardAfterHeader_ActionOnly(header, header_action) == header_action = "KeepOpen"

\* line 63: after writeHeader, the caller's write goes on to the wrapped socket
ForwardAfterHeader(header, header_action) ==
    Len(header) = 0 /\ header_action = "KeepOpen"

\* mutant of HeaderResult: the bytes written are not reported
HeaderResult_NoBytes(header_action, written) ==
    [action_ |-> header_action, bytes_processed_ |-> 0, end_stream_read_ |-> FALSE]

\* line 154: writeHeader's result
HeaderResult(header_action, written) ==
    [action_ |-> header_action, bytes_processed_ |-> written, end_stream_read_ |-> FALSE]

\* mutant of CombinedResult: the header bytes of this call are not counted
CombinedResult_InnerOnly(header_res, inner_res) ==
    [action_ |-> inner_res.action_,
     bytes_processed_ |-> inner_res.bytes_processed_,
     end_stream_read_ |-> FALSE]

\* line 65: doWrite's result once the wrapped socket has written too
CombinedResult(header_res, inner_res) ==
    [action_ |-> inner_res.action_,
     bytes_processed_ |-> header_res.bytes_processed_ + inner_res.bytes_processed_,
     end_stream_read_ |-> FALSE]

\* mutant of PassthroughResult: a Close of the wrapped socket is not passed on
PassthroughResult_KeepsOpen(inner_res) ==
    [inner_res EXCEPT !.action_ = "KeepOpen"]

\* line 69: with no header bytes left doWrite answers what the wrapped socket
\* answers
PassthroughResult(inner_res) == inner_res

\* the call as it returns
Returned(c, header_action, buffer_after) ==
    [c EXCEPT !.header_after = Len(header_buffer_),
              !.header_action = header_action,
              !.buffer_after = buffer_after]

\* the wrapped transport socket's doWrite on the connection's buffer: it takes
\* k bytes from the front, writes them to the I/O handle and answers with its
\* own action and the k bytes as processed
InnerDoWrite(c, k, inner_action) ==
    /\ wire' = wire \o Take(write_buffer, k)
    /\ write_buffer' = Drop(write_buffer, k)
    /\ call' = Returned([c EXCEPT !.inner_calls =
                            Append(@, [buffer |-> write_buffer,
                                       end_stream |-> c.end_stream,
                                       header_length |-> Len(header_buffer_),
                                       generated |-> Len(generated),
                                       wire_length |-> Len(wire),
                                       result |-> InnerResult(inner_action, k)])],
                        "KeepOpen", Drop(write_buffer, k))

\* lines 63-67: what doWrite does with writeHeader's result
AfterWriteHeader(c, header_res) ==
    /\ pc' = "idle"
    /\ IF ForwardAfterHeader(header_buffer_, header_res.action_)
       THEN \E k \in 0..Len(write_buffer), inner_action \in {"KeepOpen", "Close"} :
                /\ InnerDoWrite(c, k, inner_action)
                /\ ret' = CombinedResult(header_res, InnerResult(inner_action, k))
       ELSE /\ ret' = header_res
            /\ call' = Returned(c, header_res.action_, write_buffer)
            /\ UNCHANGED <<wire, write_buffer>>

\* doWrite is called: it passes the call on (line 69), or enters writeHeader
DoWrite ==
    /\ pc = "idle"
    /\ \E end_stream \in BOOLEAN :
        LET entry == [NoCall EXCEPT !.header_length = Len(header_buffer_),
                                    !.buffer = write_buffer,
                                    !.end_stream = end_stream]
        IN  IF HeaderPending(header_buffer_)
            THEN /\ pc' = "writeHeader"
                 /\ action' = "KeepOpen"
                 /\ bytes_written' = 0
                 /\ call' = entry
                 /\ UNCHANGED <<wire, write_buffer, ret>>
            ELSE /\ \E k \in 0..Len(write_buffer), inner_action \in {"KeepOpen", "Close"} :
                      /\ InnerDoWrite(entry, k, inner_action)
                      /\ ret' = PassthroughResult(InnerResult(inner_action, k))
                 /\ UNCHANGED <<pc, action, bytes_written>>
    /\ UNCHANGED <<inputs, factory_sockets, socket_fields, custom_tlvs_, header_buffer_,
                   v2_tlvs_exceed_max_length_, connected, generated, codec_tlvs,
                   inner_connected, app_total, pre_wire>>

\* mutant of WriteErrorAction: a would-block closes the connection too
WriteErrorAction_AlwaysClose(header_action, error) == "Close"

\* lines 147-149: the action after a failed write
WriteErrorAction(header_action, error) ==
    IF error # "Again" THEN "Close" ELSE header_action

\* mutant of WriteErrorBreaks: the loop goes on after a would-block
WriteErrorBreaks_OnlyFatal(error) == error # "Again"

\* line 150: a failed write leaves the loop, whatever the error
WriteErrorBreaks(error) == TRUE

\* line 139, as the history of the call sees it
IoWriteIssued(c) ==
    [c EXCEPT !.io_parity = 1 - @,
              !.io_after_error = @ \/ c.io_error # "none"]

\* lines 135-137: the header is written, the loop ends and doWrite goes on
WriteHeaderBreak ==
    /\ Len(header_buffer_) = 0
    /\ AfterWriteHeader(call, HeaderResult(action, bytes_written))
    /\ UNCHANGED <<header_buffer_, action, bytes_written>>

\* lines 139-143: the I/O handle takes n bytes from the front of header_buffer_
WriteHeaderOk(n) ==
    /\ Len(header_buffer_) > 0
    /\ wire' = wire \o Take(header_buffer_, n)
    /\ header_buffer_' = Drop(header_buffer_, n)
    /\ bytes_written' = bytes_written + n
    /\ call' = [IoWriteIssued(call) EXCEPT !.zero_write = @ \/ n = 0]
    /\ UNCHANGED <<pc, action, write_buffer, ret>>

\* lines 144-151: the write fails
WriteHeaderError(error) ==
    /\ Len(header_buffer_) > 0
    /\ action' = WriteErrorAction(action, error)
    /\ LET failed == [IoWriteIssued(call) EXCEPT !.io_error = error,
                                                 !.header_at_error = Len(header_buffer_)]
       IN  IF WriteErrorBreaks(error)
           THEN AfterWriteHeader(failed, HeaderResult(action', bytes_written))
           ELSE /\ call' = failed
                /\ UNCHANGED <<pc, wire, write_buffer, ret>>
    /\ UNCHANGED <<header_buffer_, bytes_written>>

\* a write that takes at least one byte
WriteHeaderAccepts == \E n \in 1..Len(header_buffer_) : WriteHeaderOk(n)

\* one turn of writeHeader's loop: the break at line 136, or one write to the
\* I/O handle and what follows from its result; a break returns through doWrite
WriteHeaderStep ==
    /\ pc = "writeHeader"
    /\ \/ WriteHeaderBreak
       \/ \E n \in 0..Len(header_buffer_) : WriteHeaderOk(n)
       \/ \E error \in {"Again", "Other"} : WriteHeaderError(error)
    /\ UNCHANGED <<inputs, factory_sockets, socket_fields, custom_tlvs_, v2_tlvs_exceed_max_length_,
                   connected, generated, codec_tlvs, inner_connected, app_total,
                   pre_wire>>

Next == OnConnected \/ AppWrite \/ DoWrite \/ WriteHeaderStep

\* a connection from its construction on: the connected event and its writes
Spec == Init /\ [][Next]_vars

\* the same, with the thread that is inside writeHeader's loop going on with
\* it: the loop is straight code that waits for nothing
SpecLive == Init /\ [][Next]_vars /\ WF_vars(WriteHeaderStep)

\* header generation over every input
SpecGen == InitGen /\ [][OnConnected]_vars

(***************************************************************************)
(* UpstreamProxyProtocolSocketFactory::hashKey.                            *)
(* The options of a call are taken by what hashKey reads of them: whether  *)
(* they are there, whether they hold PROXY protocol options, and these     *)
(* options' asStringForHash(), a string of character codes.                *)
(***************************************************************************)
\* the characters of the canonical strings: "A", "a" and "b"
Chars == {65, 97, 98}

KeyOptionsDomain ==
    {[present |-> FALSE, has_proxy_protocol |-> FALSE, as_string |-> <<>>],
     [present |-> TRUE, has_proxy_protocol |-> FALSE, as_string |-> <<>>]}
    \cup {[present |-> TRUE, has_proxy_protocol |-> TRUE, as_string |-> str] :
             str \in SeqsUpTo(Chars, MaxString) \ {<<>>}}

\* the key as the caller passes it in, and what the wrapped factory's hashKey
\* appends to it
BaseKeys == {<<>>, <<1>>}
InnerContributions == {<<>>, <<5>>}

AsciiToLower(c) == IF c \in 65..90 THEN c + 32 ELSE c

\* StringUtil::CaseInsensitiveHash: a 64-bit hash of the string with its
\* letters in lower case.  Two strings of the model have the same hash only
\* if they are equal up to the case of their letters.
RECURSIVE HashFrom(_, _)
HashFrom(h, str) ==
    IF str = <<>> THEN h
    ELSE HashFrom(h * 128 + AsciiToLower(Head(str)), Tail(str))

CaseInsensitiveHash(str) == HashFrom(0, str)

\* pushScalarToByteVector of a uint64_t: its eight bytes, lowest first
RECURSIVE ScalarBytes(_, _)
ScalarBytes(x, n) == IF n = 0 THEN <<>> ELSE <<x % 256>> \o ScalarBytes(x \div 256, n - 1)

pushScalarToByteVector(x, key) == key \o ScalarBytes(x, 8)

\* mutant of hashKey: the hash is pushed for any options object
hashKey_AnyOptions(key, options, inner) ==
    IF options.present
    THEN pushScalarToByteVector(CaseInsensitiveHash(options.as_string), key \o inner)
    ELSE key \o inner

\* lines 179-191: the key after hashKey(key, options); inner is what
\* PassthroughFactory::hashKey appends for the wrapped factory
hashKey(key, options, inner) ==
    LET delegated == key \o inner
    IN  IF options.present /\ options.has_proxy_protocol
        THEN pushScalarToByteVector(CaseInsensitiveHash(options.as_string), delegated)
        ELSE delegated

\* a call of hashKey; two calls are followed, to compare their keys
HashKey ==
    /\ Len(hash_calls) < 2
    /\ \E key \in BaseKeys, options \in KeyOptionsDomain, inner \in InnerContributions :
          hash_calls' = Append(hash_calls,
                               [key |-> key, options |-> options, inner |-> inner,
                                result |-> hashKey(key, options, inner)])
    /\ UNCHANGED <<config, host, factory_sockets, socket_fields, custom_tlvs_,
                   header_buffer_, v2_tlvs_exceed_max_length_, pc, action, bytes_written,
                   write_buffer, wire, connected, generated, codec_tlvs,
                   inner_connected, app_total, pre_wire, call, ret>>

\* the factory, before any socket of it is followed
InitKey ==
    \E c \in WriteConfigs, o \in {NoOptions}, h \in WriteHosts :
        c.version = "V2" /\ c.entries = <<>> /\ h.kind = "no_metadata" /\ Constructed(c, o, h)

\* the pooling key: hashKey calls on one factory
SpecKey == InitKey /\ [][HashKey]_vars

(***************************************************************************)
(* UpstreamProxyProtocolSocketFactory::createTransportSocket, and the      *)
(* sockets of one factory side by side.  Each socket is a record of its    *)
(* members; the factory's configuration and the overflow counter are the   *)
(* two things its sockets have in common.  The event loop delivers one     *)
(* event to one socket at a time.                                          *)
(***************************************************************************)
\* the sockets of the factory that are followed
MaxSockets == 2

\* lines 28-52: the members of a socket as its constructor leaves them; inner
\* is the wrapped socket it owns
NewSocket(c, o, h, inner) ==
    [transport_socket_ |-> inner, options_ |-> o, host |-> h,
     version_ |-> c.version,
     pass_all_tlvs_ |-> PassAllTlvs(c),
     pass_through_tlvs_ |-> PassThroughTlvs(c),
     config_tlvs_ |-> ConfigTlvs(c.entries),
     custom_tlvs_ |-> <<>>,
     header_buffer_ |-> <<>>,
     connected |-> FALSE, generated |-> <<>>, codec |-> <<>>, inner_connected |-> 0]

\* mutant of CreateResult: the wrapped factory's answer is not tested
CreateResult_NoNullCheck(inner_socket, n) == n + 1

\* lines 171-176: no socket when the wrapped factory made none (0), the next
\* new socket otherwise
CreateResult(inner_socket, n) == IF inner_socket = 0 THEN 0 ELSE n + 1

\* mutant of CustomTlvsAtGeneration: one list for all the sockets of the factory
CustomTlvsAtGeneration_Shared(ss, i) == ss[1].custom_tlvs_

\* lines 107-114: generation reads and writes the custom_tlvs_ of its own socket
CustomTlvsAtGeneration(ss, i) == ss[i].custom_tlvs_

\* lines 168-177
CreateTransportSocket ==
    /\ Len(sockets) < MaxSockets
    /\ Len(created) <= MaxSockets
    /\ \E o \in WriteOptions, h \in WriteHosts, inner_null \in BOOLEAN :
          LET inner_socket == IF inner_null THEN 0 ELSE Len(created) + 1
              result == CreateResult(inner_socket, Len(sockets))
          IN  /\ created' = Append(created, [inner_socket |-> inner_socket,
                                             result |-> result])
              /\ sockets' = IF result = 0 THEN sockets
                            ELSE Append(sockets, NewSocket(config, o, h, inner_socket))
    /\ acted' = 0
    /\ UNCHANGED <<config, host, hash_calls, socket_fields, custom_tlvs_,
                   header_buffer_, v2_tlvs_exceed_max_length_, pc, action,
                   bytes_written, write_buffer, wire, connected, generated,
                   codec_tlvs, inner_connected, app_total, pre_wire, call, ret>>

\* lines 157-160 on socket i, once per connection
SocketOnConnected(i) ==
    /\ ~sockets[i].connected
    /\ LET s == sockets[i]
           g == generateHeader(s.version_, s.options_,
                               CustomTlvsAtGeneration(sockets, i), s.config_tlvs_,
                               s.pass_all_tlvs_, s.pass_through_tlvs_, s.host)
       IN  /\ sockets' = [sockets EXCEPT ![i] =
                             [s EXCEPT !.header_buffer_ = @ \o g.bytes,
                                       !.custom_tlvs_ = g.custom_tlvs,
                                       !.generated = Append(@, g.bytes),
                                       !.codec = @ \o g.codec,
                                       !.inner_connected = @ + 1,
                                       !.connected = TRUE]]
           /\ v2_tlvs_exceed_max_length_' = v2_tlvs_exceed_max_length_ + g.inc
    /\ acted' = i
    /\ UNCHANGED <<config, host, hash_calls, created, socket_fields, custom_tlvs_,
                   header_buffer_, pc, action, bytes_written, write_buffer, wire,
                   connected, generated, codec_tlvs, inner_connected, app_total,
                   pre_wire, call, ret>>

\* lines 60-71 and 131-155 on socket i, by what a whole call does to the
\* socket's members: the writes of writeHeader take n bytes in all from the
\* front of header_buffer_
SocketDoWrite(i) ==
    /\ \E n \in 0..Len(sockets[i].header_buffer_) :
          sockets' = [sockets EXCEPT ![i].header_buffer_ = Drop(@, n)]
    /\ acted' = i
    /\ UNCHANGED <<config, host, hash_calls, created, socket_fields, custom_tlvs_,
                   header_buffer_, v2_tlvs_exceed_max_length_, pc, action,
                   bytes_written, write_buffer, wire, connected, generated,
                   codec_tlvs, inner_connected, app_total, pre_wire, call, ret>>

NextFactory ==
    \/ CreateTransportSocket
    \/ \E i \in DOMAIN sockets : SocketOnConnected(i)
    \/ \E i \in DOMAIN sockets : SocketDoWrite(i)

\* the factory of one configuration, no socket made yet
InitFactory ==
    \E c \in WriteConfigs :
        /\ c.version = "V2"
        /\ Constructed(c, NoOptions, [kind |-> "no_metadata", entries |-> <<>>])

\* the sockets of one factory
SpecFactory == InitFactory /\ [][NextFactory]_vars

(***************************************************************************)
(* Properties of the drain of the header (specification Spec).             *)
(***************************************************************************)
\* the application bytes number from + 1 .. from + n, in the order they were handed over
AppBytes(from, n) == [i \in 1..n |-> AppByte(from + i)]

\* what has been written to the I/O handle since the connected event
SentSinceConnected == Drop(wire, Len(pre_wire))

\* C1: Drain correctness.  Whatever the I/O handle accepts per write (any
\* number of bytes, none, or a would-block), the bytes on the wire from the
\* connected event on are the generated header's bytes in order, each once,
\* followed immediately by the application bytes the wrapped transport
\* forwarded, in order; the header bytes not yet on the wire are exactly those
\* left in header_buffer_.
C1_DrainCorrectness ==
    connected =>
        LET header == generated[1]
            sent == SentSinceConnected
        IN  /\ Take(wire, Len(pre_wire)) = pre_wire
            /\ IF Len(sent) <= Len(header)
               THEN sent \o header_buffer_ = header
               ELSE /\ header_buffer_ = <<>>
                    /\ sent = header \o AppBytes(Len(pre_wire), Len(sent) - Len(header))

\* C1 witness: a call that found the header partly written, wrote the rest of
\* it and forwarded application bytes in the same call
C1_Witness ==
    /\ pc = "idle"
    /\ connected
    /\ pre_wire = <<>>
    /\ call.header_length > 0
    /\ call.header_length < Len(generated[1])
    /\ ret.bytes_processed_ > call.header_length
    /\ wire = generated[1] \o AppBytes(0, 1)

\* the calls of the wrapped socket's doWrite that carried application data
InnerCallsWithData == {c \in Range(call.inner_calls) : c.buffer # <<>>}

\* C3 as stated: in every interleaving of onConnected and doWrite, the wrapped
\* transport's doWrite is invoked with application data only when the header
\* has been generated and every header byte has been written.
C3_HeaderBeforePayload_AnyOrder ==
    \A c \in InnerCallsWithData :
        /\ c.generated > 0
        /\ c.header_length = 0
        /\ c.wire_length - Len(pre_wire) >= Len(generated[1])

\* C3, amended: in every interleaving, a doWrite call that follows onConnected
\* invokes the wrapped transport's doWrite only when every byte of the
\* generated header has been written to the I/O handle; a doWrite call that
\* precedes onConnected is passed on as it is.
C3_HeaderBeforePayload ==
    \A c \in Range(call.inner_calls) :
        /\ c.header_length = 0
        /\ c.generated > 0 => c.wire_length - Len(pre_wire) >= Len(generated[1])

\* C3 witness: after onConnected, a call drained the header and went on to the
\* wrapped socket with application data
C3_Witness ==
    /\ pc = "idle"
    /\ call.header_length > 0
    /\ \E c \in InnerCallsWithData : c.generated > 0

\* C4: one header generation per connection, by the connected event; the
\* wrapped socket's onConnected finds the generated header queued in
\* header_buffer_; no doWrite call generates a header.
C4_OneGenerationAtConnected ==
    /\ Len(generated) = IF connected THEN 1 ELSE 0
    /\ Len(inner_connected) = Len(generated)
    /\ connected => /\ generated[1] # <<>>
                    /\ inner_connected[1] = generated[1]

\* C4 witness: after the connected event and a doWrite call that wrote header bytes
C4_Witness ==
    /\ connected
    /\ pc = "idle"
    /\ call.header_length > 0
    /\ Len(generated) = 1
    /\ header_buffer_ = <<>>

\* the generateV2Header calls that reported an overflow
OverflowingGenerations == {i \in DOMAIN codec_tlvs : ~codec_tlvs[i].ok}

\* C5: the overflow counter equals the number of header generations in which
\* the codec reported overflow, whatever doWrite calls have been made; the
\* overflow does not fail the connection: a header is still generated.
C5_OverflowCountedOncePerGeneration ==
    /\ v2_tlvs_exceed_max_length_ = Cardinality(OverflowingGenerations)
    /\ v2_tlvs_exceed_max_length_ <= Len(generated)
    /\ OverflowingGenerations # {} => generated[1] # <<>>

\* C5 witness: the codec reported overflow, and after a would-block and a
\* later call the header is written and application data forwarded
C5_Witness ==
    /\ pc = "idle"
    /\ OverflowingGenerations # {}
    /\ v2_tlvs_exceed_max_length_ = 1
    /\ call.header_length > 0
    /\ call.header_length < Len(generated[1])
    /\ ret.action_ = "KeepOpen"
    /\ Len(wire) > Len(generated[1])

\* C10: a doWrite call that found header bytes and returned with bytes still
\* in header_buffer_, or after the header write signalled Close, did not touch
\* the application data: the caller's buffer is as it was, the wrapped socket's
\* doWrite was not invoked, and the result is the header write's action with
\* the number of header bytes this call wrote.
C10_NoApplicationDataBeforeDrain ==
    (/\ pc = "idle"
     /\ call.header_length > 0
     /\ (call.header_after > 0 \/ call.header_action = "Close"))
    => /\ call.buffer_after = call.buffer
       /\ call.inner_calls = <<>>
       /\ ret.action_ = call.header_action
       /\ ret.bytes_processed_ = call.header_length - call.header_after

\* C10 witness: a call with application data waiting that wrote part of the
\* header and returned on a would-block
C10_Witness ==
    /\ pc = "idle"
    /\ call.header_length > 0
    /\ call.header_after > 0
    /\ call.header_after < call.header_length
    /\ call.header_action = "KeepOpen"
    /\ call.buffer # <<>>

(***************************************************************************)
(* Properties of header generation (specification SpecGen).                *)
(***************************************************************************)
\* the entries of a source that have a value, as TLVs
NonEmptyEntries(entries) ==
    LET kept == SelectSeq(entries, LAMBDA e : e.value # <<>>)
    IN  [i \in DOMAIN kept |-> [type |-> kept[i].type % 256, value |-> kept[i].value]]

\* the TLVs of the host metadata, when it is there and unpacks
MetadataTlvs == IF host.kind = "ok" THEN NonEmptyEntries(host.entries) ELSE <<>>

\* C2 as stated: with per-call options, when a configured TLV and a host
\* metadata TLV share a type code, the list handed to the codec holds the
\* metadata entry and does not hold the configured entry (unless the
\* metadata has that very entry too).
C2_MetadataWins ==
    \A i \in DOMAIN codec_tlvs :
        \A s \in Range(config_tlvs_), m \in Range(MetadataTlvs) :
            s.type = m.type
            => /\ m \in Range(codec_tlvs[i].tlvs)
               /\ s \notin Range(MetadataTlvs) => s \notin Range(codec_tlvs[i].tlvs)

\* C6: V2 without per-call PROXY protocol options (no options object, or one
\* without the value): the header is the LOCAL header whatever TLVs and
\* policy are configured or in the host metadata; no TLV is resolved, the
\* codec's TLV encoder is not called and the overflow counter stays 0.
C6_V2LocalWithoutOptions ==
    (connected /\ version_ = "V2" /\ ~(options_.present /\ options_.has_proxy_protocol))
    => /\ generated = <<generateV2LocalHeader>>
       /\ header_buffer_ = generateV2LocalHeader
       /\ custom_tlvs_ = <<>>
       /\ codec_tlvs = <<>>
       /\ v2_tlvs_exceed_max_length_ = 0

\* C6 witness: options without the PROXY protocol value, with configured TLVs,
\* a pass-through policy and host metadata TLVs
C6_Witness ==
    /\ connected
    /\ version_ = "V2"
    /\ options_ = OptionsWithoutProxyProtocol
    /\ config_tlvs_ # <<>>
    /\ pass_all_tlvs_
    /\ MetadataTlvs # <<>>
    /\ header_buffer_ = <<2, 0>>

\* C7: an entry with an empty value is dropped where it is read, from the
\* configuration and from the host metadata alike, and the entries with a
\* value are kept in order: config_tlvs_ holds the configured entries that
\* have a value, and the list handed to the codec starts with the metadata
\* entries that have a value and holds no empty value.
C7_EmptyValuesDropped ==
    /\ config_tlvs_ = NonEmptyEntries(config.entries)
    /\ \A i \in DOMAIN codec_tlvs :
          LET tlvs == codec_tlvs[i].tlvs
          IN  /\ \A j \in DOMAIN tlvs : tlvs[j].value # <<>>
              /\ Len(tlvs) >= Len(MetadataTlvs)
              /\ Take(tlvs, Len(MetadataTlvs)) = MetadataTlvs

\* C7 witness: the codec was handed a list, from a configuration with an
\* empty value and host metadata with an empty value followed by a real one
C7_Witness ==
    /\ codec_tlvs # <<>>
    /\ \E i \in DOMAIN config.entries : config.entries[i].value = <<>>
    /\ host.kind = "ok"
    /\ Len(host.entries) = 2
    /\ host.entries[1].value = <<>>
    /\ host.entries[2].value # <<>>
    /\ codec_tlvs[1].tlvs = <<[type |-> host.entries[2].type, value |-> host.entries[2].value]>>

(***************************************************************************)
(* Properties of the pooling key (specification SpecKey).                  *)
(***************************************************************************)
\* what a hashKey call appended after the wrapped factory's contribution
Extension(c) == Drop(c.result, Len(c.key) + Len(c.inner))

\* C8 as stated: for one base key, two hashKey calls whose PROXY protocol
\* options have different canonical strings produce different keys.
C8_PoolKeyDivergence ==
    \A i, j \in DOMAIN hash_calls :
        LET a == hash_calls[i]
            b == hash_calls[j]
        IN  (/\ a.key = b.key
             /\ a.inner = b.inner
             /\ a.options.has_proxy_protocol
             /\ b.options.has_proxy_protocol
             /\ a.options.as_string # b.options.as_string)
            => a.result # b.result

\* C9: the key after hashKey is the key passed in, then the wrapped factory's
\* contribution, then the extension: eight bytes when the options hold PROXY
\* protocol options, nothing when the options are null or hold none; two
\* calls with the same options have the same extension.
C9_HashKeyAdditive ==
    /\ \A i \in DOMAIN hash_calls :
          LET c == hash_calls[i]
          IN  /\ c.result = (c.key \o c.inner) \o Extension(c)
              /\ Len(Extension(c)) =
                    IF c.options.present /\ c.options.has_proxy_protocol THEN 8 ELSE 0
    /\ \A i, j \in DOMAIN hash_calls :
          hash_calls[i].options = hash_calls[j].options
          => Extension(hash_calls[i]) = Extension(hash_calls[j])

\* C9 witness: the same PROXY protocol options under two different base keys,
\* after a wrapped factory that contributes to the key
C9_Witness ==
    /\ Len(hash_calls) = 2
    /\ hash_calls[1].options = hash_calls[2].options
    /\ hash_calls[1].options.has_proxy_protocol
    /\ hash_calls[1].key # hash_calls[2].key
    /\ hash_calls[1].inner # <<>>
    /\ Extension(hash_calls[1]) # <<>>

----------------------------------------------------------------------------
\* writeHeader's treatment of a failed write, lines 144-151

\* the header bytes the I/O handle has not taken yet, as generation left them
RemainingOf(header, left) == Drop(header, Len(header) - left)

\* C11: a write that would block ends writeHeader with the bytes not yet
\* written kept in header_buffer_ and with KeepOpen, so that the next doWrite
\* starts at the same byte; a write that fails otherwise ends it with Close; and
\* no write to the I/O handle follows a failed one in the same call, nor is
\* the wrapped socket called.
C11_ErrorClassification ==
    /\ pc = "writeHeader" => call.io_error = "none"
    /\ ~call.io_after_error
    /\ (pc = "idle" /\ call.io_error = "Again") =>
          /\ ret.action_ = "KeepOpen"
          /\ call.header_at_error > 0
          /\ Len(generated) = 1
          /\ header_buffer_ = RemainingOf(generated[1], call.header_at_error)
          /\ ret.bytes_processed_ = call.header_length - call.header_at_error
          /\ call.inner_calls = <<>>
    /\ (pc = "idle" /\ call.io_error = "Other") =>
          /\ ret.action_ = "Close"
          /\ Len(header_buffer_) = call.header_at_error
          /\ call.inner_calls = <<>>

\* a call that wrote part of the header and then met a write that would block
C11_Witness ==
    /\ pc = "idle"
    /\ call.io_error = "Again"
    /\ 0 < call.header_at_error
    /\ call.header_at_error < call.header_length
    /\ ret.action_ = "KeepOpen"

----------------------------------------------------------------------------
\* doWrite after the header's last bytes, lines 61-67

\* the calls that entered writeHeader with header bytes left, wrote them all
\* and came back with KeepOpen
DrainedInThisCall ==
    /\ pc = "idle"
    /\ call.header_length > 0
    /\ call.header_after = 0
    /\ call.header_action = "KeepOpen"

\* C12: the doWrite call that writes the last header bytes, with KeepOpen,
\* calls the wrapped socket's doWrite in the same call, once, with the
\* caller's buffer and end_stream; its result has the wrapped socket's action,
\* and as bytes processed the header bytes written in this call plus the bytes
\* the wrapped socket reports.
C12_CombinedWrite ==
    DrainedInThisCall =>
        /\ Len(call.inner_calls) = 1
        /\ LET inner == call.inner_calls[1]
           IN  /\ inner.buffer = call.buffer
               /\ inner.end_stream = call.end_stream
               /\ inner.header_length = 0
               /\ ret.action_ = inner.result.action_
               /\ ret.bytes_processed_ =
                     call.header_length + inner.result.bytes_processed_
               /\ Len(wire) = inner.wire_length + inner.result.bytes_processed_

\* a call that wrote header bytes, then application bytes through the wrapped
\* socket, which asked to close
C12_Witness ==
    /\ DrainedInThisCall
    /\ Len(call.inner_calls) = 1
    /\ call.inner_calls[1].result.bytes_processed_ > 0
    /\ call.inner_calls[1].result.action_ = "Close"
    /\ ret.action_ = "Close"

----------------------------------------------------------------------------
\* doWrite once the header is written, lines 61 and 69

\* the header has been generated and every byte of it written
Drained == connected /\ Len(generated) = 1 /\ header_buffer_ = <<>>

\* the doWrite calls that found header_buffer_ empty after the connected event
PassthroughCall ==
    /\ pc = "idle"
    /\ connected
    /\ call.header_length = 0
    /\ call.inner_calls # <<>>

\* what PassthroughCall asks of the call: one call of the wrapped socket with
\* the caller's buffer and end_stream, its result as the call's result, and
\* no byte on the wire but those the wrapped socket wrote
PassedThrough ==
    /\ Len(call.inner_calls) = 1
    /\ LET inner == call.inner_calls[1]
       IN  /\ inner.buffer = call.buffer
           /\ inner.end_stream = call.end_stream
           /\ ret = inner.result
           /\ call.io_parity = 0
           /\ call.buffer_after = Drop(call.buffer, inner.result.bytes_processed_)
           /\ Len(wire) = inner.wire_length + inner.result.bytes_processed_

\* C13: once the header is generated and written, header_buffer_ stays empty
\* whatever happens next, and every doWrite that finds it empty gives the
\* wrapped socket the caller's buffer and end_stream, answers with the wrapped
\* socket's result as it is, and writes nothing to the I/O handle itself.
C13_PassthroughPermanent ==
    /\ [](PassthroughCall => PassedThrough)
    /\ [][Drained => Drained']_vars

\* a passed-through call after the header was written, the wrapped socket
\* having taken bytes and asked to close
C13_Witness ==
    /\ PassthroughCall
    /\ Drained
    /\ generated[1] # <<>>
    /\ ret.action_ = "Close"
    /\ ret.bytes_processed_ > 0

----------------------------------------------------------------------------
\* the writes to header_buffer_: generation, and the drain of line 139

\* a write to the I/O handle takes bytes from the front of header_buffer_
FrontConsumed ==
    \E n \in 1..Len(header_buffer_) :
        /\ header_buffer_' = Drop(header_buffer_, n)
        /\ wire' = wire \o Take(header_buffer_, n)
        /\ generated' = generated

\* the one generation fills the buffer, empty and never filled until then
SetByGeneration ==
    /\ generated = <<>>
    /\ header_buffer_ = <<>>
    /\ Len(generated') = 1
    /\ header_buffer_' = generated'[1]

\* C14: every step leaves header_buffer_ as it is, or takes bytes from its
\* front and puts them on the wire, or is the one generation, which fills the
\* empty buffer of a connection that has generated nothing yet; no step adds
\* bytes to a buffer that holds, or has held, a generated header.
C14_HeaderBufferMonotone ==
    /\ [](Len(generated) <= 1)
    /\ [][header_buffer_' = header_buffer_ \/ FrontConsumed \/ SetByGeneration]_vars

\* the header partly written: set by generation, then consumed from the front
C14_Witness ==
    /\ Len(generated) = 1
    /\ 0 < Len(header_buffer_)
    /\ Len(header_buffer_) < Len(generated[1])
    /\ header_buffer_ = RemainingOf(generated[1], Len(header_buffer_))

----------------------------------------------------------------------------
\* two generations with the same inputs (specification SpecFactory)

\* the sockets of the factory that have generated their header
Generated(i) == i \in DOMAIN sockets /\ sockets[i].connected

\* sockets i and j were made with the same options for the same host; the
\* configuration is the factory's
SameInputs(i, j) ==
    /\ sockets[i].options_ = sockets[j].options_
    /\ sockets[i].host = sockets[j].host

----------------------------------------------------------------------------
\* createTransportSocket and the sockets it makes (specification SpecFactory)

\* the sockets an event on socket k may change: socket k
OthersUnchanged(k) ==
    \A j \in DOMAIN sockets : j # k => sockets'[j] = sockets[j]

\* C20: createTransportSocket returns no socket exactly when the wrapped
\* factory returns none; a socket it returns is new, owns a wrapped socket no
\* other owns, and has an empty header_buffer_ and an empty custom_tlvs_
\* until its own connected event; and an event on one socket (generation,
\* drain) changes no member of another socket of the factory, whose sockets
\* share the configuration and the overflow counter only.
C20_FactoryIsolation ==
    /\ [](\A k \in DOMAIN created :
            /\ created[k].result = 0 <=> created[k].inner_socket = 0
            /\ created[k].result # 0 =>
                  /\ created[k].result \in DOMAIN sockets
                  /\ sockets[created[k].result].transport_socket_ = created[k].inner_socket
                  /\ \A l \in DOMAIN created :
                        created[l].result = created[k].result => l = k)
    /\ [](\A i \in DOMAIN sockets :
            /\ sockets[i].transport_socket_ # 0
            /\ \A j \in DOMAIN sockets :
                  sockets[i].transport_socket_ = sockets[j].transport_socket_ => i = j
            /\ ~sockets[i].connected =>
                  sockets[i].header_buffer_ = <<>> /\ sockets[i].custom_tlvs_ = <<>>)
    /\ [][OthersUnchanged(acted')]_vars

\* a call that returned no socket between two that returned one; the first
\* socket has generated a header with TLVs and written part of it, the second
\* is not connected yet
C20_Witness ==
    /\ Len(created) = 3
    /\ created[1].result = 1
    /\ created[2].result = 0
    /\ created[3].result = 2
    /\ sockets[1].connected
    /\ sockets[1].custom_tlvs_ # <<>>
    /\ 0 < Len(sockets[1].header_buffer_)
    /\ Len(sockets[1].header_buffer_) < Len(sockets[1].generated[1])
    /\ ~sockets[2].connected
    /\ acted = 1

----------------------------------------------------------------------------
\* the TLVs of the three sources when no two share a type code (SpecGen)

\* how often e occurs in the sequence s
Occurrences(e, s) == Cardinality({i \in DOMAIN s : s[i] = e})

\* the entries of s have different type codes
DistinctTypes(s) == \A i, j \in DOMAIN s : s[i].type = s[j].type => i = j

\* the configured entries, the host metadata entries and the TLVs of the
\* call all have a value, and no type code occurs twice among them
DisjointSources ==
    LET all == NonEmptyEntries(config.entries) \o MetadataTlvs \o options_.tlv_vector_
    IN  /\ \A i \in DOMAIN config.entries : config.entries[i].value # <<>>
        /\ \A i \in DOMAIN host.entries : host.entries[i].value # <<>>
        /\ \A i \in DOMAIN options_.tlv_vector_ : options_.tlv_vector_[i].value # <<>>
        /\ DistinctTypes(all)

\* C16: under INCLUDE_ALL, V2 and per-call options, when the configured, the
\* call's and the host metadata's TLVs have values and pairwise different
\* type codes, the codec is called once and is given every entry of every
\* source once and nothing else: the metadata and the configured entries as
\* its TLV list, the call's TLVs in the options with the pass-all flag set.
\* Host metadata that is absent or does not unpack gives no entry, and the
\* header is generated all the same.
C16_DisjointUnion ==
    (/\ connected
     /\ version_ = "V2"
     /\ options_.present /\ options_.has_proxy_protocol
     /\ config.pass_through.has_pass_through_tlvs
     /\ config.pass_through.match_type = "INCLUDE_ALL"
     /\ DisjointSources)
    => /\ Len(codec_tlvs) = 1
       /\ Len(generated) = 1
       /\ LET c == codec_tlvs[1]
              handed == c.tlvs \o c.options.tlv_vector_
              sources == Range(NonEmptyEntries(config.entries))
                         \cup Range(MetadataTlvs)
                         \cup Range(options_.tlv_vector_)
          IN  /\ c.pass_all_tlvs
              /\ c.options = options_
              /\ Range(handed) = sources
              /\ \A e \in sources : Occurrences(e, handed) = 1
              /\ host.kind # "ok" =>
                    Range(c.tlvs) = Range(NonEmptyEntries(config.entries))

\* a configured TLV, a host metadata TLV and a TLV of the call, of three types
C16_Witness ==
    /\ connected
    /\ version_ = "V2"
    /\ pass_all_tlvs_
    /\ DisjointSources
    /\ Len(config.entries) = 1
    /\ host.kind = "ok" /\ Len(host.entries) = 1
    /\ options_.present /\ options_.has_proxy_protocol
    /\ options_.tlv_vector_ = <<CallTlv>>
    /\ Len(codec_tlvs) = 1
    /\ Len(codec_tlvs[1].tlvs) = 2

----------------------------------------------------------------------------
\* the pass-through policy the codec is given (SpecGen)

\* the configured policy lets a TLV of the call of type code t through
PolicyAllows(t) ==
    /\ config.pass_through.has_pass_through_tlvs
    /\ \/ config.pass_through.match_type = "INCLUDE_ALL"
       \/ /\ config.pass_through.match_type = "INCLUDE"
          /\ \E x \in Range(config.pass_through.tlv_type) : x % 256 = t

\* C17: the pass-all flag is set exactly under INCLUDE_ALL; the allow-list
\* holds the configured type codes, each cut to its low byte, under INCLUDE
\* and is empty otherwise; the codec is given this flag and this list as they
\* are, together with the call's options; and the TLV list the socket itself
\* hands over holds configured and host metadata entries only, so that a TLV
\* of the call reaches the header through the policy or not at all.
C17_PolicyHandedToCodec ==
    /\ pass_all_tlvs_ <=> (/\ config.pass_through.has_pass_through_tlvs
                           /\ config.pass_through.match_type = "INCLUDE_ALL")
    /\ \A t \in pass_through_tlvs_ :
            /\ t \in 0..255
            /\ PolicyAllows(t)
            /\ config.pass_through.match_type = "INCLUDE"
    /\ (/\ config.pass_through.has_pass_through_tlvs
        /\ config.pass_through.match_type = "INCLUDE")
       => \A x \in Range(config.pass_through.tlv_type) : x % 256 \in pass_through_tlvs_
    /\ \A i \in DOMAIN codec_tlvs :
          LET c == codec_tlvs[i]
          IN  /\ c.pass_all_tlvs = pass_all_tlvs_
              /\ c.pass_through_tlvs = pass_through_tlvs_
              /\ c.options = options_
              /\ \A t \in Range(c.options.tlv_vector_) :
                    (c.pass_all_tlvs \/ t.type \in c.pass_through_tlvs)
                    <=> PolicyAllows(t.type)
              /\ Range(c.tlvs) \subseteq
                    Range(NonEmptyEntries(config.entries)) \cup Range(MetadataTlvs)

\* an allow-list configured with a type code above 255, and a call with a
\* TLV of the type it is cut to
C17_Witness ==
    /\ connected
    /\ config.pass_through.has_pass_through_tlvs
    /\ config.pass_through.match_type = "INCLUDE"
    /\ \E x \in Range(config.pass_through.tlv_type) : x > 255
    /\ pass_through_tlvs_ = {CallTlv.type}
    /\ ~pass_all_tlvs_
    /\ Len(codec_tlvs) = 1
    /\ codec_tlvs[1].options.tlv_vector_ = <<CallTlv>>

----------------------------------------------------------------------------
\* the V1 header (SpecGen)

\* C18: a V1 header carries the source and destination of the call's PROXY
\* protocol options when the call has them, and otherwise the connection's
\* local address as source and its remote address as destination; configured
\* TLVs, host metadata, the call's TLVs and the pass-through policy play no
\* part: no TLV is resolved and the codec's TLV encoder is not called.
C18_V1Addresses ==
    (connected /\ version_ = "V1")
    => /\ generated =
             IF options_.present /\ options_.has_proxy_protocol
             THEN << <<1, options_.src_addr_, options_.dst_addr_>> >>
             ELSE << <<1, Address.local, Address.remote>> >>
       /\ header_buffer_ = generated[1]
       /\ custom_tlvs_ = <<>>
       /\ codec_tlvs = <<>>
       /\ v2_tlvs_exceed_max_length_ = 0

\* V1 with the call's options, their TLV, configured TLVs, a pass-all policy
\* and host metadata TLVs
C18_Witness ==
    /\ connected
    /\ version_ = "V1"
    /\ options_ = OptionsWith(<<CallTlv>>)
    /\ config_tlvs_ # <<>>
    /\ pass_all_tlvs_
    /\ MetadataTlvs # <<>>
    /\ header_buffer_ = <<1, Address.option_src, Address.option_dst>>

----------------------------------------------------------------------------
\* termination of writeHeader and of the drain (specification SpecLive)

\* C19 as stated: every writeHeader call returns, whatever the I/O handle
\* answers, a success with no byte taken included.
C19_AlwaysReturns == (pc = "writeHeader") ~> (pc = "idle")

\* a write to the I/O handle that takes at least one header byte
AcceptingWrite == WriteHeaderStep /\ Len(header_buffer_') < Len(header_buffer_)

\* the I/O handle takes bytes again and again when asked to, and the
\* connection calls doWrite again and again
AcceptingTransport == SF_vars(AcceptingWrite) /\ WF_vars(DoWrite)

\* what does hold of the loop: a writeHeader call returns unless the I/O
\* handle answers a write with success and no byte taken; and when the I/O
\* handle keeps taking bytes and doWrite keeps being called, the header of a
\* connected socket is written out in the end.
ReturnsUnlessZeroWrite ==
    /\ (pc = "writeHeader") ~> (pc = "idle" \/ call.zero_write)
    /\ AcceptingTransport => (connected ~> (connected /\ header_buffer_ = <<>>))

====
